---- MODULE Spec2Model ----
(***************************************************************************)
(* Model of layers/Conv2D.py: a custom Keras Conv2D layer.                 *)
(*                                                                         *)
(* The layer object is the record `layer`; its fields carry the names of   *)
(* the Python attributes.  Tensors are records [shape, val] where val maps *)
(* 1-based index tuples to integers.  Python exceptions are carried in the *)
(* err field of an operation's result ("" when the call returned).         *)
(***************************************************************************)
EXTENDS Integers, Sequences, FiniteSets, TLC

VARIABLES
    image_data_format,  \* process-wide K.image_data_format()
    kwargs,             \* keyword arguments the constructor was called with
    layer,              \* the Conv2D instance (NoLayer when __init__ raised)
    op,                 \* last operation invoked on the layer
    arg,                \* its argument (an input shape or an input tensor)
    res                 \* its result: [err, value]

vars == <<image_data_format, kwargs, layer, op, arg, res>>

----------------------------------------------------------------------------
(* Bounds of the model.                                                    *)

MaxDim == 3         \* largest spatial extent of an input
MaxKernel == 2      \* largest kernel extent passed explicitly
MaxBuilds == 2      \* explicit build() calls per run

(* Sampled inputs. *)
FilterValues == {1, 2}
StrideValues == {1, 2}
DilationValues == {1, 2}
PaddingValues == {"valid", "same", "VALID", "SAME", "full"}
ChannelValues == {1, 2}
BatchValues == {1, 2}
Seeds == {1, 2}

----------------------------------------------------------------------------
(* Python values.                                                          *)

None == "None"          \* None where an activation identifier is expected
NoneDim == -1           \* None as an entry of a shape (unknown dimension)
NoTensor == [shape |-> <<>>, val |-> <<>>]     \* self.kernel = None
NoLayer == [exists |-> FALSE]
NoValue == <<>>

Returned(v) == [err |-> "", value |-> v]
Raised(e) == [err |-> e, value |-> NoValue]

(* input_shape[axis] with Python's negative indices *)
Index(shape, axis) ==
    IF axis < 0 THEN shape[Len(shape) + axis + 1] ELSE shape[axis + 1]

(* kwargs.get(key, default): a parameter of __init__ with its default *)
Arg(kw, key, default) == IF key \in DOMAIN kw THEN kw[key] ELSE default

(* the rank-4 tensor of the given shape whose entry at (a, b, c, d) is *)
(* E(a, b, c, d)                                                       *)
Tensor(shape, E(_, _, _, _)) ==
    [shape |-> shape,
     val |-> [a \in 1..shape[1] |-> [b \in 1..shape[2] |->
                 [c \in 1..shape[3] |-> [d \in 1..shape[4] |-> E(a, b, c, d)]]]]]

(* f[1] + ... + f[n] *)
RECURSIVE Sum(_, _)
Sum(f, n) == IF n = 0 THEN 0 ELSE f[n] + Sum(f, n - 1)

----------------------------------------------------------------------------
(* keras.activations                                                       *)

relu == "<function relu>"
linear == "<function linear>"
Callables == {relu, linear}
ActivationNames == {"relu", "linear"}

(* activations.get(identifier) *)
activations_get(identifier) ==
    IF identifier = None THEN Returned(linear)
    ELSE IF identifier \in Callables THEN Returned(identifier)
    ELSE IF identifier \in ActivationNames
         THEN Returned(IF identifier = "relu" THEN relu ELSE linear)
    ELSE Raised("ValueError")

(* self.activation(y), elementwise *)
Activate(fn, v) == IF fn = relu /\ v < 0 THEN 0 ELSE v

----------------------------------------------------------------------------
(* Conv2D.__init__                                                         *)

Conv2D__init__(kw, data_format) ==
    LET identifier == Arg(kw, "activation", "relu")
        act == IF identifier # None THEN activations_get(identifier)
               ELSE Returned(None)
    IN  IF act.err # "" THEN NoLayer
        ELSE [exists |-> TRUE,
              filters |-> Arg(kw, "filters", 32),
              bias |-> NoTensor,
              kernel_size |-> Arg(kw, "kernel_size", <<3, 3>>),
              kernel |-> NoTensor,
              strides |-> Arg(kw, "strides", <<1, 1>>),
              padding |-> Arg(kw, "padding", "VALID"),
              activation |-> act.value,
              dilation_rate |-> Arg(kw, "dilation_rate", <<1, 1>>),
              batch_size |-> Arg(kw, "batch_size", 1),
              channel_axis |-> IF data_format = "channels_first" THEN 0 ELSE -1,
              built |-> FALSE,
              weights |-> 0]

----------------------------------------------------------------------------
(* Conv2D.compute_output_shape                                             *)

(* keras.utils.conv_utils.conv_output_length *)
conv_output_length(input_length, filter_size, padding, stride, dilation) ==
    IF input_length = NoneDim THEN Returned(NoneDim)
    ELSE IF padding \notin {"same", "valid", "full", "causal"}
         THEN Raised("AssertionError")
    ELSE LET dilated_filter_size == filter_size + (filter_size - 1) * (dilation - 1)
             output_length ==
                 IF padding \in {"same", "causal"} THEN input_length
                 ELSE IF padding = "valid"
                      THEN input_length - dilated_filter_size + 1
                 ELSE input_length + dilated_filter_size - 1
         IN  Returned((output_length + stride - 1) \div stride)

compute_output_shape(self, input_shape) ==
    LET batch_size == input_shape[1]
        convX == conv_output_length(input_shape[2], self.kernel_size[1],
                                    self.padding, self.strides[1],
                                    self.dilation_rate[1])
        convY == conv_output_length(input_shape[3], self.kernel_size[2],
                                    self.padding, self.strides[2],
                                    self.dilation_rate[2])
    IN  IF convX.err # "" THEN Raised(convX.err)
        ELSE IF convY.err # "" THEN Raised(convY.err)
        ELSE Returned(<<batch_size, convX.value, convY.value, self.filters>>)

----------------------------------------------------------------------------
(* Conv2D.get_config and Layer.from_config                                 *)

\* get_config without its dilation_rate entry
get_config_NoDilation(self) ==
    [filters |-> self.filters,
     kernel_size |-> self.kernel_size,
     strides |-> self.strides,
     padding |-> self.padding,
     activation |-> self.activation,
     batch_size |-> self.batch_size]

(* the entries of Layer.get_config (name, trainable, dtype) go back to     *)
(* Layer.__init__ and reach none of the fields below                       *)
get_config(self) ==
    [filters |-> self.filters,
     kernel_size |-> self.kernel_size,
     strides |-> self.strides,
     padding |-> self.padding,
     activation |-> self.activation,
     dilation_rate |-> self.dilation_rate,
     batch_size |-> self.batch_size]

\* Layer.from_config: the class called with the config as keyword arguments
from_config(config, data_format) == Conv2D__init__(config, data_format)

----------------------------------------------------------------------------
(* Tensors and the backend operations used by build and call               *)

(* tf.ones(shape): an input tensor *)
ones(shape) == Tensor(shape, LAMBDA a, b, c, d : 1)

(* tf.zeros_initializer() on shape (n,) *)
zeros_initializer(n) == [shape |-> <<n>>, val |-> [i \in 1..n |-> 0]]

(* tf.keras.initializers.GlorotUniform(): one draw per seed, values scaled *)
(* to {-1, 0, 1}                                                           *)
GlorotUniform(shape, seed) ==
    Tensor(shape, LAMBDA a, b, c, d : ((seed + a + b + c + d) % 3) - 1)

(* tf.keras.backend.conv2d(x, kernel): strides (1, 1), padding 'valid',    *)
(* dilation_rate (1, 1) and data_format = image_data_format()              *)
conv2d(x, kernel, data_format) ==
    LET first == data_format = "channels_first"
        C == IF first THEN x.shape[2] ELSE x.shape[4]
        H == IF first THEN x.shape[3] ELSE x.shape[2]
        W == IF first THEN x.shape[4] ELSE x.shape[3]
        kh == kernel.shape[1]
        kw == kernel.shape[2]
        F == kernel.shape[4]
        oh == H - kh + 1
        ow == W - kw + 1
        at(b, i, j, f) ==
            Sum([di \in 1..kh |->
                 Sum([dj \in 1..kw |->
                      Sum([c \in 1..C |->
                           (IF first THEN x.val[b][c][i + di - 1][j + dj - 1]
                                     ELSE x.val[b][i + di - 1][j + dj - 1][c])
                           * kernel.val[di][dj][c][f]], C)], kw)], kh)
    IN  IF C # kernel.shape[3] \/ oh < 0 \/ ow < 0
        THEN Raised("InvalidArgumentError")
        ELSE IF first
             THEN Returned(Tensor(<<x.shape[1], F, oh, ow>>,
                                  LAMBDA b, f, i, j : at(b, i, j, f)))
        ELSE Returned(Tensor(<<x.shape[1], oh, ow, F>>,
                             LAMBDA b, i, j, f : at(b, i, j, f)))

(* K.bias_add(y, bias) *)
bias_add(y, bias, data_format) ==
    Tensor(y.shape,
           LAMBDA a, b, c, d :
               y.val[a][b][c][d]
               + bias.val[IF data_format = "channels_first" THEN b ELSE d])

----------------------------------------------------------------------------
(* Conv2D.build, Conv2D.call and Layer.__call__                            *)

build(self, input_shape, seed) ==
    LET kernel_shape == self.kernel_size
                        \o <<Index(input_shape, self.channel_axis), self.filters>>
    IN  [self EXCEPT !.bias = zeros_initializer(self.filters),
                     !.kernel = GlorotUniform(kernel_shape, seed),
                     !.weights = self.weights + 2,
                     !.built = TRUE]

call(self, x, data_format) ==
    LET conv == conv2d(x, self.kernel, data_format)
        y == bias_add(conv.value, self.bias, data_format)
    IN  IF conv.err # "" THEN conv
        ELSE IF self.activation # None
             THEN Returned(Tensor(y.shape,
                                  LAMBDA a, b, c, d :
                                      Activate(self.activation, y.val[a][b][c][d])))
        ELSE Returned(y)

\* _maybe_build without the test of self.built
maybe_build_Always(self, input_shape, seed) == build(self, input_shape, seed)

(* Layer._maybe_build: build on the first call only *)
maybe_build(self, input_shape, seed) ==
    IF self.built THEN self ELSE build(self, input_shape, seed)

----------------------------------------------------------------------------
(* Inputs                                                                  *)

Pairs(S) == {<<a, b>> : a \in S, b \in S}

(* concrete shapes of square images in the process's data layout *)
InputShapes(data_format) ==
    IF data_format = "channels_first"
    THEN {<<b, c, n, n>> : b \in BatchValues, c \in ChannelValues, n \in 1..MaxDim}
    ELSE {<<b, n, n, c>> : b \in BatchValues, c \in ChannelValues, n \in 1..MaxDim}

(* shapes handed to compute_output_shape: batch and extents may be unknown *)
QueryShapes ==
    {<<b, h, w, 3>> : b \in {1, NoneDim},
                      h \in 1..MaxDim \cup {NoneDim}, w \in 1..MaxDim \cup {NoneDim}}
    \cup {<<1, 224, 224, 3>>}

(* square kernels and one row kernel *)
LifeKernels == {<<n, n>> : n \in 1..MaxKernel} \cup {<<1, MaxKernel>>}

(* the default geometry of the convolution, and one that differs from it *)
LifeGeometry == {[strides |-> <<1, 1>>, padding |-> "valid"],
                 [strides |-> <<2, 2>>, padding |-> "same"]}

LifeKwargs ==
    {[filters |-> f, kernel_size |-> k, strides |-> g.strides, padding |-> g.padding] :
        f \in FilterValues, k \in LifeKernels, g \in LifeGeometry}

ShapeKwargs ==
    {[filters |-> f, kernel_size |-> k, strides |-> s, padding |-> p,
      dilation_rate |-> d] :
        f \in FilterValues, k \in Pairs(1..MaxKernel), s \in Pairs(StrideValues),
        p \in PaddingValues, d \in Pairs(DilationValues)}

ConfigKwargs ==
    {[filters |-> f, kernel_size |-> k, strides |-> s, padding |-> p,
      dilation_rate |-> d] :
        f \in FilterValues, k \in Pairs(1..MaxKernel), s \in {<<1, 1>>, <<1, 2>>},
        p \in PaddingValues, d \in {<<1, 1>>, <<2, 1>>}}

(* activation identifiers a caller may pass *)
ActivationArgs == {None, "relu", "linear", "swishh", relu}

(* the initializer draws only when build runs *)
Draws(self) == IF self.built THEN {CHOOSE s \in Seeds : TRUE} ELSE Seeds

----------------------------------------------------------------------------
(* Construction                                                            *)

Construct(kw) ==
    /\ image_data_format \in {"channels_last", "channels_first"}
    /\ kwargs = kw
    /\ layer = Conv2D__init__(kw, image_data_format)
    /\ op = "__init__"
    /\ arg = NoValue
    /\ res = IF layer = NoLayer THEN Raised("ValueError") ELSE Returned(NoValue)

----------------------------------------------------------------------------
(* The layer's life: construction, then build / forward calls              *)

Init ==
    \E kw \in LifeKwargs :
        \/ Construct(kw)
        \/ Construct([filters |-> kw.filters, kernel_size |-> kw.kernel_size,
                      strides |-> kw.strides, padding |-> kw.padding,
                      activation |-> None])

(* layer.build(input_shape), called explicitly *)
Build ==
    /\ layer # NoLayer
    /\ layer.weights < 2 * MaxBuilds
    /\ \E input_shape \in InputShapes(image_data_format), seed \in Seeds :
          /\ input_shape[3] = MaxDim
          /\ layer' = build(layer, input_shape, seed)
          /\ op' = "build"
          /\ arg' = input_shape
          /\ res' = Returned(NoValue)
    /\ UNCHANGED <<image_data_format, kwargs>>

(* layer(x): Layer.__call__ builds the layer if needed, then runs call *)
Forward ==
    /\ layer # NoLayer
    /\ \E input_shape \in InputShapes(image_data_format), seed \in Draws(layer) :
          \E x \in {ones(input_shape)}, self \in {maybe_build(layer, input_shape, seed)} :
              /\ layer' = self
              /\ op' = "forward"
              /\ arg' = x
              /\ res' = call(self, x, image_data_format)
    /\ UNCHANGED <<image_data_format, kwargs>>

Next == Build \/ Forward

Spec == Init /\ [][Next]_vars

----------------------------------------------------------------------------
(* compute_output_shape as a function of the configuration                 *)

InitShape ==
    \/ Construct(<<>>)
    \/ \E kw \in ShapeKwargs : Construct(kw)

ComputeOutputShape ==
    /\ layer # NoLayer
    /\ \E input_shape \in QueryShapes :
          /\ op' = "compute_output_shape"
          /\ arg' = input_shape
          /\ res' = compute_output_shape(layer, input_shape)
    /\ UNCHANGED <<image_data_format, kwargs, layer>>

NextShape == ComputeOutputShape

SpecShape == InitShape /\ [][NextShape]_vars

----------------------------------------------------------------------------
(* Configuration round trip                                                *)

InitConfig ==
    \E kw \in ConfigKwargs :
        \/ Construct(kw)
        \/ \E a \in ActivationArgs :
              Construct([filters |-> kw.filters, kernel_size |-> kw.kernel_size,
                         strides |-> kw.strides, padding |-> kw.padding,
                         dilation_rate |-> kw.dilation_rate, activation |-> a])

(* Conv2D.from_config(layer.get_config()) *)
RoundTrip ==
    /\ layer # NoLayer
    /\ op' = "from_config"
    /\ arg' = get_config(layer)
    /\ res' = Returned(from_config(get_config(layer), image_data_format))
    /\ UNCHANGED <<image_data_format, kwargs, layer>>

NextConfig == Build \/ RoundTrip

SpecConfig == InitConfig /\ [][NextConfig]_vars

----------------------------------------------------------------------------
(* Properties                                                              *)

ChannelsOf(shape) ==
    IF image_data_format = "channels_first" THEN shape[2] ELSE shape[4]

IsVALID(p) == p \in {"valid", "VALID"}
IsSAME(p) == p \in {"same", "SAME"}

(* the output extent of the documented formula, per spatial axis *)
OutExtent(n, k, d, s, p) ==
    IF IsVALID(p) THEN ((n - (k - 1) * d - 1) \div s) + 1
    ELSE (n + s - 1) \div s

OutH(l, shape) ==
    OutExtent(shape[2], l.kernel_size[1], l.dilation_rate[1], l.strides[1], l.padding)
OutW(l, shape) ==
    OutExtent(shape[3], l.kernel_size[2], l.dilation_rate[2], l.strides[2], l.padding)

ValidConfiguration(l) ==
    /\ l.filters > 0
    /\ \A i \in 1..2 : l.kernel_size[i] > 0 /\ l.strides[i] > 0 /\ l.dilation_rate[i] > 0
    /\ IsVALID(l.padding) \/ IsSAME(l.padding)

(* C1: the shape of every tensor returned by forward equals what          *)
(* compute_output_shape returns for the input's shape (stated for the      *)
(* channels-last layout, whose axes compute_output_shape reads).           *)
C1_ForwardShapeIsComputedShape ==
    (op = "forward" /\ res.err = "" /\ image_data_format = "channels_last") =>
        LET s == compute_output_shape(layer, arg.shape)
        IN  s.err = "" /\ res.value.shape = s.value

(* C2: for padding VALID or SAME and known extents, compute_output_shape   *)
(* returns (batch, outH, outW, filters) by the documented formula, the     *)
(* batch size (known or unknown) passed through.                           *)
C2_ComputedShapeFormula ==
    (/\ op = "compute_output_shape"
     /\ IsVALID(layer.padding) \/ IsSAME(layer.padding)
     /\ arg[2] # NoneDim /\ arg[3] # NoneDim
     /\ OutH(layer, arg) > 0 /\ OutW(layer, arg) > 0) =>
        /\ res.err = ""
        /\ res.value = <<arg[1], OutH(layer, arg), OutW(layer, arg), layer.filters>>

(* C3: a build of an already built layer with the same channel count       *)
(* leaves kernel and bias as they are and allocates nothing.               *)
C3_BuildIdempotent ==
    [][(/\ layer # NoLayer
        /\ layer.built
        /\ op' = "build"
        /\ Index(arg', layer.channel_axis) = layer.kernel.shape[3]) =>
            /\ layer'.kernel = layer.kernel
            /\ layer'.bias = layer.bias
            /\ layer'.weights = layer.weights]_vars

(* C4: a build of an already built layer with another channel count fails  *)
(* with ShapeMismatch and leaves the layer as it is.                       *)
C4_RebuildRejected ==
    [][(/\ layer # NoLayer
        /\ layer.built
        /\ op' = "build"
        /\ Index(arg', layer.channel_axis) # layer.kernel.shape[3]) =>
            /\ res'.err = "ShapeMismatch"
            /\ layer' = layer]_vars

(* C5: no layer exists, and none answers an operation, with an invalid     *)
(* configuration.                                                          *)
C5_InvalidConfigurationRejected ==
    layer # NoLayer => ValidConfiguration(layer)

(* C6: under VALID padding compute_output_shape fails when an output       *)
(* extent would be <= 0, and returns extent 1 when the kernel extent       *)
(* equals the input extent with stride 1 (stated for the spelling 'valid', *)
(* the one conv_output_length accepts).                                    *)
C6_NonPositiveExtentRejected ==
    (/\ op = "compute_output_shape"
     /\ layer.padding = "valid"
     /\ arg[2] # NoneDim /\ arg[3] # NoneDim) =>
        /\ (OutH(layer, arg) <= 0 \/ OutW(layer, arg) <= 0) => res.err # ""
        /\ (/\ OutW(layer, arg) > 0
            /\ layer.kernel_size[1] = arg[2]
            /\ layer.strides[1] = 1 /\ layer.dilation_rate[1] = 1) =>
               res.err = "" /\ res.value[2] = 1

(* C7: from_config(get_config(layer)) is an unbuilt layer with the         *)
(* original's configuration, whose compute_output_shape agrees with the    *)
(* original's on every input shape; the config holds no weights.           *)
C7_ConfigRoundTrip ==
    op = "from_config" =>
        LET c == res.value
        IN  /\ c # NoLayer
            /\ ~c.built /\ c.kernel = NoTensor /\ c.bias = NoTensor
            /\ c.filters = layer.filters
            /\ c.kernel_size = layer.kernel_size
            /\ c.strides = layer.strides
            /\ c.padding = layer.padding
            /\ c.activation = layer.activation
            /\ c.dilation_rate = layer.dilation_rate
            /\ \A s \in QueryShapes :
                  compute_output_shape(c, s) = compute_output_shape(layer, s)
            /\ DOMAIN arg \cap {"kernel", "bias", "weights"} = {}

C7_Witness ==
    /\ op = "from_config"
    /\ layer.built
    /\ layer.activation = relu
    /\ layer.dilation_rate = <<2, 1>>
    /\ layer.padding = "same"

(* C8: a layer constructed without an activation argument returns the raw  *)
(* convolution plus bias from forward.                                     *)
C8_OmittedActivationIsIdentity ==
    (op = "forward" /\ res.err = "" /\ "activation" \notin DOMAIN kwargs) =>
        res.value = bias_add(conv2d(arg, layer.kernel, image_data_format).value,
                             layer.bias, image_data_format)

(* C9: a build leaves a kernel of shape (kh, kw, channels of the input,    *)
(* filters) and an all-zero bias of shape (filters,).                      *)
C9_WeightShapes ==
    [][(/\ layer # NoLayer
        /\ op' = "build" \/ (op' = "forward" /\ ~layer.built)) =>
            LET shape == IF op' = "build" THEN arg' ELSE arg'.shape
            IN  /\ layer'.kernel.shape =
                       layer.kernel_size \o <<ChannelsOf(shape), layer.filters>>
                /\ layer'.bias = [shape |-> <<layer.filters>>,
                                  val |-> [i \in 1..layer.filters |-> 0]]]_vars

(* C10: forward on a built layer changes neither the weights nor the       *)
(* configuration, and its result is determined by the layer and the input. *)
C10_ForwardHasNoSideEffects ==
    [][(layer # NoLayer /\ layer.built /\ op' = "forward") =>
            /\ layer' = layer
            /\ res' = call(layer, arg', image_data_format)]_vars

C10_Witness ==
    /\ op = "forward"
    /\ res.err = ""
    /\ layer.weights = 4

====
